---- MODULE Spec2Model ----
(***************************************************************************)
(* Model of backend/apps/openai/main.py: the backend registry              *)
(* (OPENAI_API_BASE_URLS / OPENAI_API_KEYS), the model catalog (MODELS),    *)
(* the catalog refresh get_all_models, the check_url middleware, the        *)
(* update handlers, the listings, the generic proxy and the speech cache,   *)
(* and of backend/apps/web/models/chats.py: the Chat table behind           *)
(* ChatTable, with sharing and deletion.                                    *)
(* Request handlers are coroutines of one event loop: a step of the model   *)
(* is the code a coroutine runs between two suspension points.              *)
(* Backend indices are 0-based as in the source.                            *)
(***************************************************************************)
EXTENDS Integers, Sequences, FiniteSets, TLC

\* ------------------------------------------------------------------ bounds
NumHandlers == 2
MaxRequests == 2
MaxChats == 3

Procs == 1..NumHandlers

\* ------------------------------------------------------- strings and tables
OPENAI_URL == "https://api.openai.com/v1"
OPENAI_EU_URL == "https://eu.api.openai.com/v1"
LOCAL_URL == "http://local:8080/v1"

\* "api.openai.com" in url
HasApiOpenAiCom(url) == url \in {OPENAI_URL, OPENAI_EU_URL}

\* "gpt" in id
HasGpt(id) == id \in {"gpt-4", "gpt-4-vision-preview"}

NoModel == "(none)"

\* ------------------------------------------------------------ python lists
\* seq[i] of a Python list: valid for -len <= i < len, IndexError otherwise
InRange(seq, i) == (i >= 0 /\ i < Len(seq)) \/ (i < 0 /\ -i <= Len(seq))

PyAt(seq, i) == IF i >= 0 THEN seq[i + 1] ELSE seq[Len(seq) + i + 1]

\* list.index(x): position of the first occurrence, -1 stands for ValueError
RECURSIVE IndexFrom(_, _, _)
IndexFrom(seq, x, i) ==
    IF i >= Len(seq) THEN -1
    ELSE IF seq[i + 1] = x THEN i
    ELSE IndexFrom(seq, x, i + 1)

ListIndex(seq, x) == IndexFrom(seq, x, 0)

\* --------------------------------------------------- responses of /models
\* what fetch_url returns: None (connection error or a body that is not
\* JSON), a dict carrying "error" and no "data", a dict carrying "data",
\* or a bare JSON list
RNone == [t |-> "None", data |-> <<>>]
RError == [t |-> "error", data |-> <<>>]
RData(l) == [t |-> "data", data |-> l]
RList(l) == [t |-> "list", data |-> l]

\* the lists a backend may publish
Published(url) ==
    IF url = OPENAI_URL THEN {<<"gpt-4", "whisper-1">>}
    ELSE IF url = OPENAI_EU_URL THEN {<<"whisper-1">>}
    ELSE {<<"llama-3">>, <<"gpt-4", "llama-3">>}

\* (the key of a task only goes into the Authorization header)
fetch_url(url) ==
    {RNone, RError} \cup {RData(l) : l \in Published(url)}
                    \cup {RList(l) : l \in {<<"llama-3">>} \cap Published(url)}

\* the lambda of get_all_models: response["data"], the bare list, or None
NoList == [present |-> FALSE, list |-> <<>>]
ExtractData(response) ==
    IF response.t = "data" THEN [present |-> TRUE, list |-> response.data]
    ELSE IF response.t = "list" THEN [present |-> TRUE, list |-> response.data]
    ELSE NoList

\* ------------------------------------------------------ merge_models_lists
Entry(id, idx) == [id |-> id, urlIdx |-> idx]

\* the list comprehension for backend idx over its models
KeepModelMutNoFilter(base_urls, idx, id) == TRUE
KeepModel(base_urls, idx, id) ==
    ~HasApiOpenAiCom(PyAt(base_urls, idx)) \/ HasGpt(id)

RECURSIVE FilterModels(_, _, _, _)
FilterModels(base_urls, idx, models, k) ==
    IF k > Len(models) THEN <<>>
    ELSE (IF KeepModel(base_urls, idx, models[k])
          THEN <<Entry(models[k], idx)>> ELSE <<>>)
         \o FilterModels(base_urls, idx, models, k + 1)

\* base_urls[idx] is evaluated once per model of a present list
MergeRaises(model_lists, base_urls) ==
    \E i \in DOMAIN model_lists :
        /\ model_lists[i].present
        /\ model_lists[i].list # <<>>
        /\ ~InRange(base_urls, i - 1)

RECURSIVE MergeFrom(_, _, _)
MergeFrom(model_lists, base_urls, i) ==
    IF i > Len(model_lists) THEN <<>>
    ELSE (IF model_lists[i].present
          THEN FilterModels(base_urls, i - 1, model_lists[i].list, 1)
          ELSE <<>>)
         \o MergeFrom(model_lists, base_urls, i + 1)

merge_models_lists(model_lists, base_urls) == MergeFrom(model_lists, base_urls, 1)

\* {model["id"]: model for model in models["data"]}: the last occurrence wins
LastPosMutFirst(list, id) ==
    CHOOSE k \in DOMAIN list :
        /\ list[k].id = id
        /\ \A j \in DOMAIN list : list[j].id = id => j >= k

LastPos(list, id) ==
    CHOOSE k \in DOMAIN list :
        /\ list[k].id = id
        /\ \A j \in DOMAIN list : list[j].id = id => j <= k

DictOf(list) ==
    [id \in {list[k].id : k \in DOMAIN list} |-> list[LastPos(list, id)]]

EmptyCatalog == DictOf(<<>>)

\* ------------------------------------------------------------------ inputs
\* the URL and key lists an administrator submits; the registry is never
\* emptied in this model
UrlForms == {<<OPENAI_URL, LOCAL_URL>>, <<LOCAL_URL, OPENAI_URL>>, <<LOCAL_URL>>}
KeyForms == {<<"">>, <<"k1">>, <<"k1", "k2">>}

Roles == {"user", "admin"}
UrlIdxs == {0, 1, -1, 2}

\* a request body: UTF-8 text that is not JSON, bytes that are not UTF-8
\* (and so not JSON either), or a JSON object with the fields the proxy
\* looks at
RawBody ==
    [json |-> FALSE, utf8 |-> TRUE, model |-> NoModel,
     max_tokens |-> FALSE, num_ctx |-> FALSE]
BytesBody ==
    [json |-> FALSE, utf8 |-> FALSE, model |-> NoModel,
     max_tokens |-> FALSE, num_ctx |-> FALSE]
JsonBody(m, mt, nc) ==
    [json |-> TRUE, utf8 |-> TRUE, model |-> m, max_tokens |-> mt, num_ctx |-> nc]
NoBody ==
    [json |-> FALSE, utf8 |-> TRUE, model |-> "(no body)",
     max_tokens |-> FALSE, num_ctx |-> FALSE]

ProxyBodies ==
    {RawBody, BytesBody, JsonBody("gpt-4", FALSE, FALSE),
     JsonBody("llama-3", FALSE, TRUE), JsonBody("whisper-1", FALSE, FALSE),
     JsonBody(NoModel, FALSE, FALSE)}

SpeechBodies == {RawBody, JsonBody("tts-1", FALSE, FALSE)}

\* hashlib.sha256(body).hexdigest(): one name per body
Sha256(body) == IF body.json THEN "sha256-json-" \o body.model ELSE "sha256-raw"
SpeechNames == {Sha256(b) : b \in SpeechBodies}

\* the allow-list of the configuration
MODEL_FILTER_LIST == {"gpt-4"}

\* -------------------------------------------------------- upstream answers
\* r of requests.request / requests.post: None when no response was obtained
NoResponse == [got |-> FALSE, status |-> 0, ctype |-> "", body |-> "", data |-> <<>>]
Upstream(status, ctype, body, data) ==
    [got |-> TRUE, status |-> status, ctype |-> ctype, body |-> body, data |-> data]

\* body: "object" a JSON object without "error", "error" a JSON object with
\* "error", "invalid" not JSON, "models" a JSON object with "data"
UpstreamAnswers ==
    {NoResponse,
     Upstream(200, "application/json", "object", <<>>),
     Upstream(200, "text/event-stream", "invalid", <<>>),
     Upstream(201, "text/event-stream; charset=utf-8", "invalid", <<>>),
     Upstream(200, "application/json", "invalid", <<>>),
     Upstream(404, "application/json", "error", <<>>),
     Upstream(404, "text/html", "invalid", <<>>)}

ListingAnswers(url) ==
    {NoResponse,
     Upstream(404, "application/json", "error", <<>>),
     Upstream(200, "application/json", "object", <<>>)}
    \cup {Upstream(200, "application/json", "models", l) : l \in Published(url)}

AudioBytes == {"audio-a", "audio-b"}

\* r.raise_for_status() raises for 400 <= status < 600
RaisesForStatus(r) == r.status >= 400 /\ r.status < 600

\* bool(r) of a requests.Response is r.ok: no HTTPError from raise_for_status
Truthy(r) == r.got /\ ~RaisesForStatus(r)

\* the except branch shared by proxy, get_models and speech
ErrorStatus(r) == IF Truthy(r) THEN r.status ELSE 500

ErrorDetail(r) ==
    IF ~r.got THEN "Open WebUI: Server Connection Error"
    ELSE IF r.body = "invalid" THEN "External: exception"
    ELSE IF r.body = "error" THEN "External: error"
    ELSE "Open WebUI: Server Connection Error"

\* ------------------------------------------------------------------- state
VARIABLES
    OPENAI_ASSISTANT_ID,     \* config: "" when assistant mode is off
    ENABLE_MODEL_FILTER,     \* app.state.ENABLE_MODEL_FILTER
    OPENAI_API_BASE_URLS,    \* app.state.OPENAI_API_BASE_URLS
    OPENAI_API_KEYS,         \* app.state.OPENAI_API_KEYS
    MODELS,                  \* app.state.MODELS
    speech_cache,            \* <CACHE_DIR>/audio/speech/<name>.mp3 and .json
    upstream_calls,          \* POSTs to /audio/speech received upstream, per body
    accepted,                \* number of requests accepted so far
    pc,                      \* per handler: where its coroutine is
    frame,                   \* per handler: locals of the suspended coroutine
    refresh,                 \* the get_all_models call that returned in the last step
    result,                  \* the response that was sent in the last step
    chats,                   \* the rows of the Chat table
    uuids,                   \* number of ids uuid.uuid4() has handed out
    returned                 \* the ChatTable call that returned in the last step

vars == <<OPENAI_ASSISTANT_ID, ENABLE_MODEL_FILTER, OPENAI_API_BASE_URLS,
          OPENAI_API_KEYS, MODELS, speech_cache, upstream_calls, accepted,
          pc, frame, refresh, result, chats, uuids, returned>>

config == <<OPENAI_ASSISTANT_ID, ENABLE_MODEL_FILTER>>
cache == <<speech_cache, upstream_calls>>
store == <<chats, uuids, returned>>
app == <<OPENAI_ASSISTANT_ID, ENABLE_MODEL_FILTER, OPENAI_API_BASE_URLS,
         OPENAI_API_KEYS, MODELS, speech_cache, upstream_calls, accepted,
         pc, frame, refresh, result>>

NoFrame == [kind |-> "", form |-> <<>>, role |-> "", idx |-> 0, tasks |-> <<>>]

NoRefresh == [by |-> "", how |-> "", tasks |-> <<>>, lists |-> <<>>, models |-> <<>>]

NoRequest == [made |-> FALSE, url |-> "", key |-> "", body |-> NoBody]

NoResult ==
    [kind |-> "", form |-> <<>>, role |-> "", url_idx |-> 0, body |-> NoBody,
     status |-> 0, headers |-> "", exc |-> "", detail |-> "", json |-> "",
     data |-> <<>>,
     ids |-> <<>>, audio |-> "", sent |-> NoRequest, r |-> NoResponse]

NoFile == [mp3 |-> "", json |-> ""]

\* ------------------------------------------------------------- Chat table
\* the users that call the chat store
Users == {"u1", "u2"}

\* the n-th id of uuid.uuid4(): ids are never handed out twice
Uuid(n) == "c" \o ToString(n)

\* a NULL share_id
NULL == "NULL"

\* a row of Chat: the columns that sharing and deletion read or write
Row(id, user_id, share_id) == [id |-> id, user_id |-> user_id, share_id |-> share_id]

\* None where a ChatModel is expected
NoChat == Row("None", "", NULL)

\* f"shared-{chat_id}"
SharedUser(chat_id) == "shared-" \o chat_id

\* the ids a caller may pass: the ids handed out so far
KnownIds == {Uuid(n) : n \in 1..uuids}

\* Chat.select().where(Chat.id == id)
RowsById(id) == {row \in chats : row.id = id}

\* the record of a ChatTable call
NoReturn ==
    [op |-> "", id |-> "", user_id |-> "", chat |-> NoChat, ok |-> FALSE, exc |-> ""]
Returned(op, id, user_id) == [NoReturn EXCEPT !.op = op, !.id = id, !.user_id = user_id]

\* the state after the module is loaded; the configuration pairs every
\* base URL with a key
Loaded ==
    /\ \/ /\ OPENAI_API_BASE_URLS = <<OPENAI_URL, LOCAL_URL>>
          /\ OPENAI_API_KEYS = <<"k1", "k2">>
       \/ /\ OPENAI_API_BASE_URLS = <<OPENAI_URL>>
          /\ OPENAI_API_KEYS = <<"">>
    /\ MODELS = EmptyCatalog
    /\ speech_cache = [n \in SpeechNames |-> NoFile]
    /\ upstream_calls = [n \in SpeechNames |-> 0]
    /\ accepted = 0
    /\ pc = [p \in Procs |-> "idle"]
    /\ frame = [p \in Procs |-> NoFrame]
    /\ refresh = NoRefresh
    /\ result = NoResult
    /\ chats = {}
    /\ uuids = 0
    /\ returned = NoReturn

\* assistant mode only adds a header to the fetches of the catalog
Init ==
    /\ OPENAI_ASSISTANT_ID = ""
    /\ ENABLE_MODEL_FILTER \in BOOLEAN
    /\ Loaded

\* the allow-list is not consulted by the proxy and the indexed listing
InitProxy ==
    /\ OPENAI_ASSISTANT_ID \in {"", "asst_1"}
    /\ ENABLE_MODEL_FILTER = FALSE
    /\ Loaded

\* neither setting is read by the speech handler
InitSpeech ==
    /\ OPENAI_ASSISTANT_ID = ""
    /\ ENABLE_MODEL_FILTER = FALSE
    /\ Loaded

\* the chat store is called on its own; the application is as loaded
InitChats ==
    /\ OPENAI_ASSISTANT_ID = ""
    /\ ENABLE_MODEL_FILTER = FALSE
    /\ Loaded

\* --------------------------------------------------------- get_all_models
\* the guard of get_all_models
EmptyCredential ==
    Len(OPENAI_API_KEYS) = 1 /\ PyAt(OPENAI_API_KEYS, 0) = ""

\* building the task list reads OPENAI_API_KEYS[idx] for every url
TasksRaise ==
    \E idx \in 0..(Len(OPENAI_API_BASE_URLS) - 1) : ~InRange(OPENAI_API_KEYS, idx)

\* the url of each task, in registry order
Tasks == OPENAI_API_BASE_URLS

\* asyncio.gather: one response per task, whatever the order of completion
Gathered(tasks) ==
    {rs \in [DOMAIN tasks -> UNION {fetch_url(tasks[i]) : i \in DOMAIN tasks}] :
        \A i \in DOMAIN tasks : rs[i] \in fetch_url(tasks[i])}

\* the argument of merge_models_lists
ModelLists(responses) == [i \in DOMAIN responses |-> ExtractData(responses[i])]

\* the arguments merge_models_lists may get for a task list
GatheredLists(tasks) == {ModelLists(responses) : responses \in Gathered(tasks)}

\* the branch of get_all_models taken when it is called
HowCalled ==
    IF EmptyCredential THEN "guard"
    ELSE IF TasksRaise THEN "IndexError"
    ELSE "gather"

\* the catalog assignment of get_all_models
NewCatalog(merged) == DictOf(merged)

\* get_all_models up to its return, when it does not suspend
RefreshGuard(by) ==
    [by |-> by, how |-> "guard", tasks |-> <<>>, lists |-> <<>>, models |-> <<>>]
RefreshRaise(by, tasks, lists) ==
    [by |-> by, how |-> "IndexError", tasks |-> tasks, lists |-> lists, models |-> <<>>]
RefreshMerged(by, tasks, lists) ==
    [by |-> by, how |-> "merged", tasks |-> tasks, lists |-> lists,
     models |-> merge_models_lists(lists, OPENAI_API_BASE_URLS)]

\* get_all_models after the gather: the record of the call
AfterGather(by, tasks, lists) ==
    IF MergeRaises(lists, OPENAI_API_BASE_URLS)
    THEN RefreshRaise(by, tasks, lists)
    ELSE RefreshMerged(by, tasks, lists)

\* app.state.MODELS after a call recorded as rf
CatalogAfter(rf) == IF rf.how = "merged" THEN NewCatalog(rf.models) ELSE MODELS

\* an unhandled exception becomes a 500 response
Unhandled(kind, exc) == [NoResult EXCEPT !.kind = kind, !.status = 500, !.exc = exc]

\* the except branch of get_models, proxy and speech: HTTPException
Failed(res, r) ==
    [res EXCEPT !.status = ErrorStatus(r), !.exc = "HTTPException",
                !.detail = ErrorDetail(r), !.json = "error", !.r = r]

Request(url, key, body) == [made |-> TRUE, url |-> url, key |-> key, body |-> body]

\* ----------------------------------------------------------------- actions
\* `len(app.state.MODELS) == 0` of the middleware
CatalogEmptyMutNever == FALSE
CatalogEmpty == Cardinality(DOMAIN MODELS) = 0

\* a request reaches the application: the middleware up to its first
\* suspension point; the route and the body are read when call_next runs
\* the handler
check_url(p) ==
    /\ pc[p] = "idle"
    /\ accepted < MaxRequests
    /\ accepted' = accepted + 1
    /\ IF ~CatalogEmpty
       THEN /\ pc' = [pc EXCEPT ![p] = "call_next"]
            /\ refresh' = NoRefresh
            /\ result' = NoResult
            /\ UNCHANGED frame
       ELSE CASE HowCalled = "guard" ->
                 /\ pc' = [pc EXCEPT ![p] = "call_next"]
                 /\ refresh' = RefreshGuard("check_url")
                 /\ result' = NoResult
                 /\ UNCHANGED frame
              [] HowCalled = "IndexError" ->
                 /\ pc' = [pc EXCEPT ![p] = "idle"]
                 /\ refresh' = RefreshRaise("check_url", <<>>, <<>>)
                 /\ result' = Unhandled("check_url", "IndexError")
                 /\ UNCHANGED frame
              [] HowCalled = "gather" ->
                 /\ pc' = [pc EXCEPT ![p] = "check_url_gather"]
                 /\ frame' = [frame EXCEPT ![p] =
                                 [NoFrame EXCEPT !.kind = "check_url", !.tasks = Tasks]]
                 /\ refresh' = NoRefresh
                 /\ result' = NoResult
    /\ UNCHANGED <<config, store, OPENAI_API_BASE_URLS, OPENAI_API_KEYS, MODELS, cache>>

\* the middleware from the gather of get_all_models to call_next
check_url_resume(p) ==
    /\ pc[p] = "check_url_gather"
    /\ \E lists \in GatheredLists(frame[p].tasks) :
        LET rf == AfterGather("check_url", frame[p].tasks, lists) IN
        /\ refresh' = rf
        /\ MODELS' = CatalogAfter(rf)
        /\ IF rf.how = "IndexError"
           THEN /\ pc' = [pc EXCEPT ![p] = "idle"]
                /\ result' = Unhandled("check_url", "IndexError")
           ELSE /\ pc' = [pc EXCEPT ![p] = "call_next"]
                /\ result' = NoResult
    /\ frame' = [frame EXCEPT ![p] = NoFrame]
    /\ UNCHANGED <<config, store, OPENAI_API_BASE_URLS, OPENAI_API_KEYS, cache, accepted>>

\* POST /urls/update up to the gather of get_all_models, or to its return
UrlsUpdated(form) ==
    [NoResult EXCEPT !.kind = "update_openai_urls", !.form = form,
                     !.status = 200, !.json = "object"]

update_openai_urls(p) ==
    /\ pc[p] = "call_next"
    /\ \E form \in UrlForms :
        CASE HowCalled = "guard" ->
             /\ refresh' = RefreshGuard("update_openai_urls")
             /\ OPENAI_API_BASE_URLS' = form
             /\ result' = UrlsUpdated(form)
             /\ pc' = [pc EXCEPT ![p] = "idle"]
             /\ UNCHANGED frame
          [] HowCalled = "IndexError" ->
             /\ refresh' = RefreshRaise("update_openai_urls", <<>>, <<>>)
             /\ result' = [Unhandled("update_openai_urls", "IndexError")
                              EXCEPT !.form = form]
             /\ pc' = [pc EXCEPT ![p] = "idle"]
             /\ UNCHANGED <<OPENAI_API_BASE_URLS, frame>>
          [] HowCalled = "gather" ->
             /\ pc' = [pc EXCEPT ![p] = "gather"]
             /\ frame' = [frame EXCEPT ![p] =
                             [NoFrame EXCEPT !.kind = "update_openai_urls",
                                             !.form = form, !.tasks = Tasks]]
             /\ refresh' = NoRefresh
             /\ result' = NoResult
             /\ UNCHANGED OPENAI_API_BASE_URLS
    /\ UNCHANGED <<config, store, OPENAI_API_KEYS, MODELS, cache, accepted>>

\* POST /urls/update from the gather to the response
update_openai_urls_resume(p) ==
    /\ pc[p] = "gather"
    /\ frame[p].kind = "update_openai_urls"
    /\ \E lists \in GatheredLists(frame[p].tasks) :
        LET rf == AfterGather("update_openai_urls", frame[p].tasks, lists) IN
        /\ refresh' = rf
        /\ MODELS' = CatalogAfter(rf)
        /\ IF rf.how = "IndexError"
           THEN /\ result' = [Unhandled("update_openai_urls", "IndexError")
                                 EXCEPT !.form = frame[p].form]
                /\ UNCHANGED OPENAI_API_BASE_URLS
           ELSE /\ result' = UrlsUpdated(frame[p].form)
                /\ OPENAI_API_BASE_URLS' = frame[p].form
    /\ pc' = [pc EXCEPT ![p] = "idle"]
    /\ frame' = [frame EXCEPT ![p] = NoFrame]
    /\ UNCHANGED <<config, store, OPENAI_API_KEYS, cache, accepted>>

\* the key list after `app.state.OPENAI_API_KEYS = form_data.keys`
KeysAssignedMutExtend(form) == OPENAI_API_KEYS \o form
KeysAssigned(form) == form

\* POST /keys/update
update_openai_key(p) ==
    /\ pc[p] = "call_next"
    /\ \E form \in KeyForms :
        /\ OPENAI_API_KEYS' = KeysAssigned(form)
        /\ result' = [NoResult EXCEPT !.kind = "update_openai_key", !.form = form,
                                      !.status = 200, !.json = "object"]
    /\ pc' = [pc EXCEPT ![p] = "idle"]
    /\ refresh' = NoRefresh
    /\ UNCHANGED <<config, store, OPENAI_API_BASE_URLS, MODELS, cache, accepted, frame>>

\* the allow-list filter of get_models
FilterByList(data) == SelectSeq(data, LAMBDA model : model.id \in MODEL_FILTER_LIST)

\* GET /models after get_all_models has returned: models is None when the
\* guard branch was taken
ModelsResponse(role, rf) ==
    IF rf.how = "IndexError"
    THEN [Unhandled("get_models", "IndexError") EXCEPT !.role = role]
    ELSE IF rf.how = "guard"
    THEN IF ENABLE_MODEL_FILTER /\ role = "user"
         THEN [Unhandled("get_models", "TypeError") EXCEPT !.role = role]
         ELSE [NoResult EXCEPT !.kind = "get_models", !.role = role,
                               !.status = 200, !.json = "null"]
    ELSE [NoResult EXCEPT !.kind = "get_models", !.role = role,
                          !.status = 200, !.json = "object",
                          !.data = IF ENABLE_MODEL_FILTER /\ role = "user"
                                   THEN FilterByList(rf.models)
                                   ELSE rf.models]

\* app.state.MODELS after GET /models has filtered its answer: the filter
\* rebinds models["data"] of the returned dict to a new list and leaves the
\* catalog, a dict of its own, as get_all_models built it
CatalogAfterListingMutFiltered(role, rf) ==
    IF rf.how = "merged" /\ ENABLE_MODEL_FILTER /\ role = "user"
    THEN NewCatalog(FilterByList(rf.models))
    ELSE CatalogAfter(rf)
CatalogAfterListing(role, rf) == CatalogAfter(rf)

\* GET /models up to the gather of get_all_models, or to its return
get_models(p) ==
    /\ pc[p] = "call_next"
    /\ \E role \in Roles :
        CASE HowCalled = "guard" ->
             /\ refresh' = RefreshGuard("get_models")
             /\ result' = ModelsResponse(role, RefreshGuard("get_models"))
             /\ pc' = [pc EXCEPT ![p] = "idle"]
             /\ UNCHANGED frame
          [] HowCalled = "IndexError" ->
             /\ refresh' = RefreshRaise("get_models", <<>>, <<>>)
             /\ result' = ModelsResponse(role, RefreshRaise("get_models", <<>>, <<>>))
             /\ pc' = [pc EXCEPT ![p] = "idle"]
             /\ UNCHANGED frame
          [] HowCalled = "gather" ->
             /\ pc' = [pc EXCEPT ![p] = "gather"]
             /\ frame' = [frame EXCEPT ![p] =
                             [NoFrame EXCEPT !.kind = "get_models",
                                             !.role = role, !.tasks = Tasks]]
             /\ refresh' = NoRefresh
             /\ result' = NoResult
    /\ UNCHANGED <<config, store, OPENAI_API_BASE_URLS, OPENAI_API_KEYS, MODELS, cache, accepted>>

\* GET /models from the gather to the response
get_models_resume(p) ==
    /\ pc[p] = "gather"
    /\ frame[p].kind = "get_models"
    /\ \E lists \in GatheredLists(frame[p].tasks) :
        LET rf == AfterGather("get_models", frame[p].tasks, lists) IN
        /\ refresh' = rf
        /\ MODELS' = CatalogAfterListing(frame[p].role, rf)
        /\ result' = ModelsResponse(frame[p].role, rf)
    /\ pc' = [pc EXCEPT ![p] = "idle"]
    /\ frame' = [frame EXCEPT ![p] = NoFrame]
    /\ UNCHANGED <<config, store, OPENAI_API_BASE_URLS, OPENAI_API_KEYS, cache, accepted>>

\* GET /models/{url_idx}: one GET to that backend, without a credential
ListingResponse(url_idx, url, r) ==
    LET res == [NoResult EXCEPT !.kind = "get_models", !.url_idx = url_idx,
                                !.sent = Request(url, "(no credential)", NoBody)]
    IN  IF ~r.got \/ RaisesForStatus(r) THEN Failed(res, r)
        ELSE IF r.body = "models"
        THEN [res EXCEPT !.status = 200, !.json = "object", !.r = r,
                         !.ids = IF HasApiOpenAiCom(url)
                                 THEN SelectSeq(r.data, HasGpt)
                                 ELSE r.data]
        ELSE IF HasApiOpenAiCom(url)
        THEN Failed(res, r)
        ELSE [res EXCEPT !.status = 200, !.json = "object", !.r = r]

get_models_idx(p) ==
    /\ pc[p] = "call_next"
    /\ \E url_idx \in UrlIdxs :
        IF ~InRange(OPENAI_API_BASE_URLS, url_idx)
        THEN result' = [Unhandled("get_models", "IndexError") EXCEPT !.url_idx = url_idx]
        ELSE \E r \in ListingAnswers(PyAt(OPENAI_API_BASE_URLS, url_idx)) :
                result' = ListingResponse(url_idx,
                                          PyAt(OPENAI_API_BASE_URLS, url_idx), r)
    /\ pc' = [pc EXCEPT ![p] = "idle"]
    /\ refresh' = NoRefresh
    /\ UNCHANGED <<config, store, OPENAI_API_BASE_URLS, OPENAI_API_KEYS, MODELS, cache,
                   accepted, frame>>

\* ------------------------------------------------------------------- proxy
\* idx of proxy once the body has been handled; body.decode("utf-8")
\* raises UnicodeDecodeError for bytes that are not UTF-8, json.loads raises
\* JSONDecodeError (the one exception that is caught) for text that is not
\* JSON, and the lookup app.state.MODELS[body.get("model")] raises KeyError
\* for an absent id
Resolved(idx) == [exc |-> "", idx |-> idx]

ProxyTargetMutZero(body) ==
    IF ~body.utf8 THEN [exc |-> "UnicodeDecodeError", idx |-> 0]
    ELSE IF OPENAI_ASSISTANT_ID = "" /\ body.json /\ body.model \notin DOMAIN MODELS
    THEN [exc |-> "KeyError", idx |-> 0]
    ELSE Resolved(0)

ProxyTargetMutDefault(body) ==
    IF ~body.utf8 THEN [exc |-> "UnicodeDecodeError", idx |-> 0]
    ELSE IF OPENAI_ASSISTANT_ID = "" /\ body.json /\ body.model \in DOMAIN MODELS
    THEN Resolved(MODELS[body.model].urlIdx)
    ELSE Resolved(0)

ProxyTarget(body) ==
    IF ~body.utf8 THEN [exc |-> "UnicodeDecodeError", idx |-> 0]
    ELSE IF OPENAI_ASSISTANT_ID = "" /\ body.json
    THEN IF body.model \in DOMAIN MODELS
         THEN Resolved(MODELS[body.model].urlIdx)
         ELSE [exc |-> "KeyError", idx |-> 0]
    ELSE Resolved(0)

\* the body that is forwarded
Rewritten(body) ==
    IF ~body.json THEN body
    ELSE IF OPENAI_ASSISTANT_ID = ""
    THEN [body EXCEPT !.max_tokens = @ \/ body.model = "gpt-4-vision-preview",
                      !.num_ctx = FALSE]
    ELSE [body EXCEPT !.model = NoModel, !.max_tokens = FALSE]

\* `if key == ""` of proxy
KeyMissingMutNever(key) == FALSE
KeyMissing(key) == key = ""

\* the Content-Type values that contain "text/event-stream"
EventStreamTypes == {"text/event-stream", "text/event-stream; charset=utf-8"}

\* "text/event-stream" in r.headers.get("Content-Type", "")
IsEventStreamMutExact(ctype) == ctype = "text/event-stream"
IsEventStream(ctype) == ctype \in EventStreamTypes

\* the response of proxy once r is known
ProxyResponse(res, r) ==
    IF ~r.got \/ RaisesForStatus(r) THEN Failed(res, r)
    ELSE IF IsEventStream(r.ctype)
    THEN [res EXCEPT !.status = r.status, !.headers = r.ctype,
                     !.json = "stream", !.r = r]
    ELSE IF r.body = "invalid" THEN Failed(res, r)
    ELSE [res EXCEPT !.status = 200, !.json = "object", !.r = r]

proxy(p) ==
    /\ pc[p] = "call_next"
    /\ \E body \in ProxyBodies :
        LET res == [NoResult EXCEPT !.kind = "proxy", !.body = body] IN
        IF ProxyTarget(body).exc # ""
        THEN result' = [res EXCEPT !.status = 500, !.exc = ProxyTarget(body).exc]
        ELSE LET idx == ProxyTarget(body).idx IN
             IF ~InRange(OPENAI_API_BASE_URLS, idx) \/ ~InRange(OPENAI_API_KEYS, idx)
             THEN result' = [res EXCEPT !.status = 500, !.exc = "IndexError"]
             ELSE IF KeyMissing(PyAt(OPENAI_API_KEYS, idx))
             THEN result' = [res EXCEPT !.status = 401, !.exc = "HTTPException",
                                        !.detail = "API_KEY_NOT_FOUND",
                                        !.json = "error"]
             ELSE \E r \in UpstreamAnswers :
                    result' = ProxyResponse(
                        [res EXCEPT !.sent = Request(PyAt(OPENAI_API_BASE_URLS, idx),
                                                     PyAt(OPENAI_API_KEYS, idx),
                                                     Rewritten(body))],
                        r)
    /\ pc' = [pc EXCEPT ![p] = "idle"]
    /\ refresh' = NoRefresh
    /\ UNCHANGED <<config, store, OPENAI_API_BASE_URLS, OPENAI_API_KEYS, MODELS, cache,
                   accepted, frame>>

\* ------------------------------------------------------------------ speech
SpeechAnswers ==
    {NoResponse,
     Upstream(404, "application/json", "error", <<>>),
     Upstream(404, "text/html", "invalid", <<>>)}
    \cup {Upstream(200, "audio/mpeg", "invalid", <<a>>) : a \in AudioBytes}

\* POST /audio/speech up to `await request.body()`
speech(p) ==
    /\ pc[p] = "call_next"
    /\ LET idx == ListIndex(OPENAI_API_BASE_URLS, OPENAI_URL) IN
        IF idx = -1
        THEN /\ result' = [NoResult EXCEPT !.kind = "speech", !.status = 401,
                                           !.exc = "HTTPException",
                                           !.detail = "OPENAI_NOT_FOUND",
                                           !.json = "error"]
             /\ pc' = [pc EXCEPT ![p] = "idle"]
             /\ UNCHANGED frame
        ELSE /\ pc' = [pc EXCEPT ![p] = "speech_body"]
             /\ frame' = [frame EXCEPT ![p] =
                             [NoFrame EXCEPT !.kind = "speech", !.idx = idx]]
             /\ result' = NoResult
    /\ refresh' = NoRefresh
    /\ UNCHANGED <<config, store, OPENAI_API_BASE_URLS, OPENAI_API_KEYS, MODELS, cache, accepted>>

\* the files after the upstream answered 2xx: the audio is streamed to the
\* .mp3 (the stream may break), then the .json is opened and the parsed
\* body dumped into it
Written(body, audio, broken) ==
    IF broken THEN [mp3 |-> audio \o " (truncated)", json |-> ""]
    ELSE [mp3 |-> audio, json |-> IF body.json THEN "written" ELSE "empty"]

\* file_path.is_file()
CacheHitMutNever(name) == FALSE
CacheHit(name) == speech_cache[name].mp3 # ""

\* POST /audio/speech from the body to the response
speech_resume(p) ==
    /\ pc[p] = "speech_body"
    /\ \E body \in SpeechBodies :
        LET name == Sha256(body)
            idx == frame[p].idx
            res == [NoResult EXCEPT !.kind = "speech", !.body = body]
        IN  IF CacheHit(name)
            THEN /\ result' = [res EXCEPT !.status = 200, !.json = "file",
                                          !.audio = speech_cache[name].mp3]
                 /\ UNCHANGED cache
            ELSE IF ~InRange(OPENAI_API_KEYS, idx)
            THEN /\ result' = [res EXCEPT !.status = 500, !.exc = "IndexError"]
                 /\ UNCHANGED cache
            ELSE IF ~InRange(OPENAI_API_BASE_URLS, idx)
            THEN /\ result' = Failed(res, NoResponse)
                 /\ UNCHANGED cache
            ELSE \E r \in SpeechAnswers, broken \in BOOLEAN :
                    LET sent == [res EXCEPT !.sent =
                                    Request(PyAt(OPENAI_API_BASE_URLS, idx),
                                            PyAt(OPENAI_API_KEYS, idx), body)]
                    IN  /\ upstream_calls' = [upstream_calls EXCEPT ![name] = @ + 1]
                        /\ IF ~r.got \/ RaisesForStatus(r)
                           THEN /\ ~broken
                                /\ result' = Failed(sent, r)
                                /\ UNCHANGED speech_cache
                           ELSE /\ speech_cache' = [speech_cache EXCEPT ![name] =
                                                       Written(body, r.data[1], broken)]
                                /\ result' =
                                      IF broken \/ ~body.json
                                      THEN Failed(sent, r)
                                      ELSE [sent EXCEPT !.status = 200, !.json = "file",
                                                        !.r = r, !.audio = r.data[1]]
    /\ pc' = [pc EXCEPT ![p] = "idle"]
    /\ frame' = [frame EXCEPT ![p] = NoFrame]
    /\ refresh' = NoRefresh
    /\ UNCHANGED <<config, store, OPENAI_API_BASE_URLS, OPENAI_API_KEYS, MODELS, accepted>>

\* ---------------------------------------------------------- specifications
\* the registry, the catalog and the listing GET /models
Next ==
    \E p \in Procs :
        \/ check_url(p)
        \/ check_url_resume(p)
        \/ update_openai_urls(p)
        \/ update_openai_urls_resume(p)
        \/ update_openai_key(p)
        \/ get_models(p)
        \/ get_models_resume(p)

Spec == Init /\ [][Next]_vars

\* the registry, the catalog, the proxy and the listing GET /models/{url_idx}
NextProxy ==
    \E p \in Procs :
        \/ check_url(p)
        \/ check_url_resume(p)
        \/ update_openai_urls(p)
        \/ update_openai_urls_resume(p)
        \/ update_openai_key(p)
        \/ get_models_idx(p)
        \/ proxy(p)

SpecProxy == InitProxy /\ [][NextProxy]_vars

\* the registry, the catalog and the speech cache
NextSpeech ==
    \E p \in Procs :
        \/ check_url(p)
        \/ check_url_resume(p)
        \/ update_openai_urls(p)
        \/ update_openai_urls_resume(p)
        \/ update_openai_key(p)
        \/ speech(p)
        \/ speech_resume(p)

SpecSpeech == InitSpeech /\ [][NextSpeech]_vars

\* -------------------------------------------------------------- ChatTable
\* ChatTable.get_chat_by_id_and_user_id: the row, or None
get_chat_by_id_and_user_id(id, user_id) ==
    IF \E row \in chats : row.id = id /\ row.user_id = user_id
    THEN CHOOSE row \in chats : row.id = id /\ row.user_id = user_id
    ELSE NoChat

\* ChatTable.insert_new_chat
insert_new_chat ==
    /\ uuids < MaxChats
    /\ \E user_id \in Users :
        LET chat == Row(Uuid(uuids + 1), user_id, NULL) IN
        /\ chats' = chats \cup {chat}
        /\ returned' = [Returned("insert_new_chat", chat.id, user_id)
                            EXCEPT !.chat = chat, !.ok = TRUE]
    /\ uuids' = uuids + 1
    /\ UNCHANGED app

\* the rows after Chat.update(share_id=share_id).where(Chat.id == id)
WithShareId(rows, id, share_id) ==
    {IF row.id = id THEN [row EXCEPT !.share_id = share_id] ELSE row : row \in rows}

\* ChatTable.insert_shared_chat_by_chat_id
insert_shared_chat_by_chat_id ==
    \E chat_id \in KnownIds :
        LET call == Returned("insert_shared_chat_by_chat_id", chat_id, "") IN
        IF RowsById(chat_id) = {}
        THEN /\ returned' = [call EXCEPT !.exc = "DoesNotExist"]
             /\ UNCHANGED <<app, chats, uuids>>
        ELSE LET chat == CHOOSE row \in chats : row.id = chat_id IN
             IF chat.share_id # NULL
             THEN /\ returned' =
                        [call EXCEPT !.ok = TRUE,
                             !.chat = get_chat_by_id_and_user_id(chat.share_id, "shared")]
                  /\ UNCHANGED <<app, chats, uuids>>
             ELSE /\ uuids < MaxChats
                  /\ LET shared_chat == Row(Uuid(uuids + 1), SharedUser(chat_id), NULL) IN
                      /\ chats' = WithShareId(chats \cup {shared_chat}, chat_id,
                                              shared_chat.id)
                      /\ returned' = [call EXCEPT !.ok = TRUE, !.chat = shared_chat]
                  /\ uuids' = uuids + 1
                  /\ UNCHANGED app

\* the rows after ChatTable.delete_shared_chat_by_chat_id
WithoutShared(rows, chat_id) == {row \in rows : row.user_id # SharedUser(chat_id)}

\* ChatTable.delete_shared_chat_by_chat_id
delete_shared_chat_by_chat_id ==
    /\ \E chat_id \in KnownIds :
        /\ chats' = WithoutShared(chats, chat_id)
        /\ returned' = [Returned("delete_shared_chat_by_chat_id", chat_id, "")
                            EXCEPT !.ok = TRUE]
    /\ UNCHANGED <<app, uuids>>

\* ChatTable.update_chat_share_id_by_id with share_id None, as the unshare
\* route calls it
update_chat_share_id_by_id ==
    /\ \E id \in KnownIds :
        /\ chats' = WithShareId(chats, id, NULL)
        /\ returned' =
              IF RowsById(id) = {}
              THEN Returned("update_chat_share_id_by_id", id, "")
              ELSE [Returned("update_chat_share_id_by_id", id, "")
                       EXCEPT !.ok = TRUE,
                              !.chat = CHOOSE row \in chats' : row.id = id]
    /\ UNCHANGED <<app, uuids>>

\* ChatTable.delete_chat_by_id
delete_chat_by_id ==
    /\ \E id \in KnownIds :
        /\ chats' = WithoutShared({row \in chats : row.id # id}, id)
        /\ returned' = [Returned("delete_chat_by_id", id, "") EXCEPT !.ok = TRUE]
    /\ UNCHANGED <<app, uuids>>

\* the rows after the first query of delete_chat_by_id_and_user_id
WithoutOwned(rows, id, user_id) ==
    {row \in rows : ~(row.id = id /\ row.user_id = user_id)}

\* ChatTable.delete_chat_by_id_and_user_id
delete_chat_by_id_and_user_id ==
    /\ \E id \in KnownIds, user_id \in Users :
        /\ chats' = WithoutShared(WithoutOwned(chats, id, user_id), id)
        /\ returned' = [Returned("delete_chat_by_id_and_user_id", id, user_id)
                            EXCEPT !.ok = TRUE]
    /\ UNCHANGED <<app, uuids>>

\* the calls of the chat store
NextChats ==
    \/ insert_new_chat
    \/ insert_shared_chat_by_chat_id
    \/ delete_shared_chat_by_chat_id
    \/ update_chat_share_id_by_id
    \/ delete_chat_by_id
    \/ delete_chat_by_id_and_user_id

SpecChats == InitChats /\ [][NextChats]_vars

\* ------------------------------------------------------------------ claims
\* the last step was a proxy request whose body is JSON naming a model of
\* the catalog
ProxyNamesCatalogued ==
    /\ result.kind = "proxy"
    /\ result.body.json
    /\ result.body.model \in DOMAIN MODELS

\* the upstream request of the last step went to registry position j, with
\* the key of position j
SentToBackend(j) ==
    /\ InRange(OPENAI_API_BASE_URLS, j)
    /\ InRange(OPENAI_API_KEYS, j)
    /\ result.sent.url = PyAt(OPENAI_API_BASE_URLS, j)
    /\ result.sent.key = PyAt(OPENAI_API_KEYS, j)

\* C1 as stated: whenever the proxy handles a JSON body naming model m that
\* the catalog assigns to backend j, the upstream request goes to the base
\* URL at registry position j with the key at position j, whatever the mode.
C1_RoutingAnyMode ==
    (ProxyNamesCatalogued /\ result.sent.made)
        => SentToBackend(MODELS[result.body.model].urlIdx)

\* C1 amended: with assistant mode off, whenever the proxy handles a JSON
\* body naming model m that the catalog assigns to backend j, the upstream
\* request goes to the base URL at registry position j with the key at
\* position j, after any sequence of URL updates, key updates and refreshes.
C1_Routing ==
    (OPENAI_ASSISTANT_ID = "" /\ ProxyNamesCatalogued /\ result.sent.made)
        => SentToBackend(MODELS[result.body.model].urlIdx)

\* a request for a model of backend 1 was forwarded after the registry changed
C1_Witness ==
    /\ OPENAI_ASSISTANT_ID = ""
    /\ ProxyNamesCatalogued
    /\ result.sent.made
    /\ MODELS[result.body.model].urlIdx = 1
    /\ OPENAI_API_BASE_URLS = <<LOCAL_URL, OPENAI_URL>>
    /\ result.sent.url = OPENAI_URL

\* the last step was a proxy request whose body is JSON naming a model that
\* is not in the catalog
ProxyNamesUnknown ==
    /\ result.kind = "proxy"
    /\ result.body.json
    /\ result.body.model # NoModel
    /\ result.body.model \notin DOMAIN MODELS

\* C2: with assistant mode off, a proxy request naming a model absent from
\* the catalog ends in a lookup error and sends nothing upstream; only in
\* assistant mode does such a request go to backend 0.
C2_UnknownModel ==
    ProxyNamesUnknown =>
        IF OPENAI_ASSISTANT_ID = ""
        THEN result.exc = "KeyError" /\ ~result.sent.made
        ELSE result.exc # "KeyError" /\ (result.sent.made => SentToBackend(0))

\* an unknown model was refused while backend 0 was usable
C2_Witness ==
    /\ OPENAI_ASSISTANT_ID = ""
    /\ ProxyNamesUnknown
    /\ result.exc = "KeyError"
    /\ Cardinality(DOMAIN MODELS) > 0
    /\ InRange(OPENAI_API_KEYS, 0)
    /\ PyAt(OPENAI_API_KEYS, 0) # ""

\* the ids of a list
Ids(list) == {list[k] : k \in DOMAIN list}

\* C3: after a catalog refresh every entry of the merged result whose owning
\* backend's base URL (the registry position it is tagged with, as read by
\* the merge) contains "api.openai.com" has an id containing "gpt", and every
\* entry reported by any other backend is kept whatever its id.
C3_Filtering ==
    [][refresh'.how = "merged" =>
        /\ \A k \in DOMAIN refresh'.models :
              /\ InRange(OPENAI_API_BASE_URLS, refresh'.models[k].urlIdx)
              /\ HasApiOpenAiCom(PyAt(OPENAI_API_BASE_URLS, refresh'.models[k].urlIdx))
                    => HasGpt(refresh'.models[k].id)
        /\ \A id \in DOMAIN MODELS' :
              HasApiOpenAiCom(PyAt(OPENAI_API_BASE_URLS, MODELS'[id].urlIdx))
                    => HasGpt(id)
        /\ \A i \in DOMAIN refresh'.lists :
              (refresh'.lists[i].present /\ refresh'.lists[i].list # <<>>
                  /\ ~HasApiOpenAiCom(PyAt(OPENAI_API_BASE_URLS, i - 1)))
              => \A id \in Ids(refresh'.lists[i].list) :
                    \E k \in DOMAIN refresh'.models :
                        refresh'.models[k] = Entry(id, i - 1)]_vars

\* a refresh dropped whisper-1 of the public backend and kept llama-3 of the
\* other one
C3_Witness ==
    /\ refresh.how = "merged"
    /\ \E i \in DOMAIN refresh.lists :
          /\ "whisper-1" \in Ids(refresh.lists[i].list)
          /\ \A k \in DOMAIN refresh.models : refresh.models[k] # Entry("whisper-1", i - 1)
    /\ \E k \in DOMAIN refresh.models : refresh.models[k].id = "llama-3"

\* C4 as stated: whatever subset of the backends fails to answer,
\* get_all_models does not raise, and every entry of its merged result comes
\* from the response of the backend whose registry index it is tagged with.
C4_PartialFailure ==
    refresh.how # "" =>
        /\ refresh.how # "IndexError"
        /\ \A k \in DOMAIN refresh.models :
              /\ refresh.models[k].urlIdx + 1 \in DOMAIN refresh.lists
              /\ refresh.lists[refresh.models[k].urlIdx + 1].present
              /\ refresh.models[k].id
                    \in Ids(refresh.lists[refresh.models[k].urlIdx + 1].list)

\* C5 as stated: two speech requests with the same body never cause more
\* than one upstream call between them.
C5_ExactlyOneUpstreamCall ==
    \A name \in SpeechNames : upstream_calls[name] <= 1

\* C5 amended: a speech request that finds an artifact under sha256(body)
\* returns it without any network call and leaves the cache alone; an
\* upstream call answered 2xx leaves an artifact under sha256(body), so no
\* later request with that body calls upstream; every request that returns
\* audio returns the bytes of that artifact.
C5_CacheIdempotent ==
    [][(result'.kind = "speech" /\ result'.body # NoBody) =>
        /\ speech_cache[Sha256(result'.body)].mp3 # "" =>
              /\ ~result'.sent.made
              /\ upstream_calls' = upstream_calls
              /\ speech_cache' = speech_cache
              /\ result'.json = "file"
              /\ result'.audio = speech_cache[Sha256(result'.body)].mp3
        /\ (result'.sent.made /\ result'.r.got /\ ~RaisesForStatus(result'.r))
              => speech_cache'[Sha256(result'.body)].mp3 # ""
        /\ result'.sent.made => upstream_calls' # upstream_calls
        /\ result'.json = "file" =>
              result'.audio = speech_cache'[Sha256(result'.body)].mp3]_vars

\* a second request was served from the artifact the first one wrote
C5_Witness ==
    /\ result.kind = "speech"
    /\ result.json = "file"
    /\ ~result.sent.made
    /\ upstream_calls[Sha256(result.body)] = 1
    /\ result.audio = speech_cache[Sha256(result.body)].mp3

\* C6 as stated: the base-URL list and the key list have the same length in
\* every reachable state.
C6_SameLength == Len(OPENAI_API_BASE_URLS) = Len(OPENAI_API_KEYS)

\* C7 as stated: when a call of get_all_models has returned, the catalog is
\* exactly the id-to-entry mapping of that call's models["data"].
C7_WholesaleReplace ==
    refresh.how \in {"guard", "merged"} => MODELS = DictOf(refresh.models)

\* C8 as stated: with the single empty key, get_all_models issues no fetch
\* and GET /models answers with an empty model list.
C8_EmptyCredential ==
    (refresh.by = "get_models" /\ refresh.how = "guard") =>
        /\ refresh.tasks = <<>>
        /\ result.status = 200
        /\ result.json = "object"
        /\ result.data = <<>>

\* C9 as stated: the refresh of POST /urls/update fetches from the submitted
\* URL list, and when the update returns that list is the registry the
\* catalog was built from.
C9_EagerRefresh ==
    (result.kind = "update_openai_urls" /\ result.status = 200
        /\ refresh.how = "merged")
    => /\ refresh.tasks = result.form
       /\ OPENAI_API_BASE_URLS = result.form

\* C10 as stated: an upstream answer with a non-2xx status reaches the
\* caller with that status, and 500 is used only when no upstream response
\* was obtained.
C10_UpstreamStatus ==
    result.sent.made =>
        /\ (result.r.got /\ (result.r.status < 200 \/ result.r.status > 299))
              => result.status = result.r.status
        /\ result.status = 500 => ~result.r.got

\* C11 as stated: GET /models answers with the merged list of its refresh,
\* cut down to the allow-list exactly when the filter is enabled and the
\* caller's role is "user", and with the whole merged list otherwise.
C11_ModelFilter ==
    (refresh.by = "get_models" /\ refresh.how \in {"guard", "merged"}) =>
        /\ result.status = 200
        /\ result.json = "object"
        /\ result.data = IF ENABLE_MODEL_FILTER /\ result.role = "user"
                         THEN FilterByList(refresh.models)
                         ELSE refresh.models

\* the last step was a proxy request that resolved registry position idx,
\* a position of both lists
ProxyResolved(idx) ==
    /\ result.kind = "proxy"
    /\ ProxyTarget(result.body).exc = ""
    /\ ProxyTarget(result.body).idx = idx
    /\ InRange(OPENAI_API_BASE_URLS, idx)
    /\ InRange(OPENAI_API_KEYS, idx)

\* C12: whenever the backend resolved for a proxy request has an empty API
\* key, the request is rejected with the 401 authentication error and no
\* upstream request is sent; with a non-empty key the request is sent.
C12_EmptyKey ==
    \A idx \in 0..(Len(OPENAI_API_KEYS) - 1) :
        ProxyResolved(idx) =>
            IF PyAt(OPENAI_API_KEYS, idx) = ""
            THEN /\ result.status = 401
                 /\ result.detail = "API_KEY_NOT_FOUND"
                 /\ ~result.sent.made
            ELSE result.sent.made

\* a request naming a catalogued model was refused after the key of its
\* backend had been emptied
C12_Witness ==
    /\ ProxyNamesCatalogued
    /\ ProxyResolved(MODELS[result.body.model].urlIdx)
    /\ PyAt(OPENAI_API_KEYS, MODELS[result.body.model].urlIdx) = ""
    /\ result.status = 401
    /\ ~result.sent.made

\* C13 as stated: a speech request answered while the public backend is not
\* in the registry gets the fixed OPENAI_NOT_FOUND error, causes no upstream
\* call, and neither serves nor writes a cache artifact.
C13_FailsClosed ==
    [][(result'.kind = "speech"
            /\ ListIndex(OPENAI_API_BASE_URLS, OPENAI_URL) = -1) =>
        /\ result'.status = 401
        /\ result'.detail = "OPENAI_NOT_FOUND"
        /\ ~result'.sent.made
        /\ result'.json # "file"
        /\ upstream_calls' = upstream_calls
        /\ speech_cache' = speech_cache]_vars

\* the position of an id in a backend's list (ids are not repeated there)
PosOf(list, id) == CHOOSE k \in DOMAIN list : list[k] = id

\* the list a merged entry is tagged with
ListOf(lists, entry) == lists[entry.urlIdx + 1]

\* C14: the merged list of a refresh holds, for each backend index i in
\* registry order whose response is present and error-free, exactly that
\* backend's surviving entries, once each, in their original order and
\* tagged urlIdx = i; the catalog maps every merged id to the entry of the
\* last backend that reports it; for registry [api.openai.com/v1, local]
\* with responses [gpt-4, whisper-1] and [llama-3] the catalog is
\* {gpt-4: backend 0, llama-3: backend 1}.
C14_MergeOrder ==
    [][refresh'.how = "merged" =>
        LET m == refresh'.models
            ls == refresh'.lists
        IN  /\ \A k \in DOMAIN m :
                  /\ m[k].urlIdx + 1 \in DOMAIN ls
                  /\ ListOf(ls, m[k]).present
                  /\ m[k].id \in Ids(ListOf(ls, m[k]).list)
                  /\ KeepModel(OPENAI_API_BASE_URLS, m[k].urlIdx, m[k].id)
            /\ \A i \in DOMAIN ls : \A id \in Ids(ls[i].list) :
                  (ls[i].present /\ KeepModel(OPENAI_API_BASE_URLS, i - 1, id))
                      => \E k \in DOMAIN m : m[k] = Entry(id, i - 1)
            /\ \A k1, k2 \in DOMAIN m :
                  k1 < k2 =>
                      \/ m[k1].urlIdx < m[k2].urlIdx
                      \/ /\ m[k1].urlIdx = m[k2].urlIdx
                         /\ PosOf(ListOf(ls, m[k1]).list, m[k1].id)
                               < PosOf(ListOf(ls, m[k2]).list, m[k2].id)
            /\ DOMAIN MODELS' = {m[k].id : k \in DOMAIN m}
            /\ \A id \in DOMAIN MODELS' :
                  /\ \E k \in DOMAIN m : m[k] = MODELS'[id] /\ m[k].id = id
                  /\ \A k \in DOMAIN m :
                        m[k].id = id => m[k].urlIdx <= MODELS'[id].urlIdx
            /\ (/\ OPENAI_API_BASE_URLS = <<OPENAI_URL, LOCAL_URL>>
                /\ ls = <<[present |-> TRUE, list |-> <<"gpt-4", "whisper-1">>],
                          [present |-> TRUE, list |-> <<"llama-3">>]>>)
                  => MODELS' = [id \in {"gpt-4", "llama-3"} |->
                                   Entry(id, IF id = "gpt-4" THEN 0 ELSE 1)]]_vars

\* two backends reported gpt-4 and the catalog took the entry of the later
\* one
C14_Witness ==
    /\ refresh.how = "merged"
    /\ \E k1, k2 \in DOMAIN refresh.models :
          /\ k1 < k2
          /\ refresh.models[k1] = Entry("gpt-4", 0)
          /\ refresh.models[k2] = Entry("gpt-4", 1)
    /\ MODELS["gpt-4"] = Entry("gpt-4", 1)
    /\ "llama-3" \in DOMAIN MODELS

\* C15 as stated: with assistant mode off, a proxy request whose body is not
\* valid JSON does not fail because of its body: it goes to backend 0, and
\* when that backend has a key it is forwarded with the body it came with.
C15_LenientParse ==
    (/\ result.kind = "proxy"
     /\ OPENAI_ASSISTANT_ID = ""
     /\ ~result.body.json
     /\ InRange(OPENAI_API_BASE_URLS, 0)
     /\ InRange(OPENAI_API_KEYS, 0)
     /\ PyAt(OPENAI_API_KEYS, 0) # "")
    => /\ result.sent.made
       /\ result.sent.body = result.body
       /\ SentToBackend(0)

\* the last step was a proxy request whose upstream call succeeded
ProxySucceeded ==
    /\ result.kind = "proxy"
    /\ result.sent.made
    /\ result.r.got
    /\ ~RaisesForStatus(result.r)

\* C16: for every successful upstream proxy response the reply is a stream
\* carrying the upstream status code and headers exactly when the upstream
\* content type contains "text/event-stream"; otherwise the upstream body is
\* parsed as JSON and, when it parses, returned as a single object.
C16_TransportSelection ==
    ProxySucceeded =>
        IF result.r.ctype \in EventStreamTypes
        THEN /\ result.json = "stream"
             /\ result.exc = ""
             /\ result.status = result.r.status
             /\ result.headers = result.r.ctype
        ELSE /\ result.json # "stream"
             /\ result.r.body # "invalid" =>
                   (result.json = "object" /\ result.exc = "")
             /\ result.r.body = "invalid" => result.exc = "HTTPException"

\* an upstream answer 201 with a charset after the event-stream type was
\* relayed as a stream
C16_Witness ==
    /\ ProxySucceeded
    /\ result.r.ctype = "text/event-stream; charset=utf-8"
    /\ result.json = "stream"
    /\ result.status = 201

\* C17 as stated: the artifact of a body changes only in a step that finds
\* none under that name and ends a successful synthesis for that body (the
\* upstream call answered and the audio and the request JSON both written,
\* the request answered with the file); an existing artifact never changes,
\* and a failed synthesis leaves nothing behind.
C17_ArtifactOnlyAfterSuccess ==
    [][\A name \in SpeechNames :
        speech_cache'[name] # speech_cache[name] =>
            /\ speech_cache[name] = NoFile
            /\ result'.kind = "speech"
            /\ Sha256(result'.body) = name
            /\ result'.status = 200
            /\ result'.json = "file"
            /\ speech_cache'[name].mp3 = result'.audio
            /\ speech_cache'[name].json = "written"]_vars

\* the step takes a new request into the middleware
Arrives == accepted' # accepted

\* C18: a request that arrives while the catalog is empty makes the
\* middleware call get_all_models, and its handler is entered only in or
\* after the step in which that call returns; a request that arrives while
\* the catalog is non-empty goes to its handler without any refresh from
\* the middleware.
C18_LazyPopulation ==
    [][/\ (Arrives /\ DOMAIN MODELS # {}) =>
             /\ refresh' = NoRefresh
             /\ \E p \in Procs : pc[p] = "idle" /\ pc'[p] = "call_next"
             /\ \A p \in Procs : pc'[p] = "check_url_gather" =>
                                     pc[p] = "check_url_gather"
       /\ (Arrives /\ DOMAIN MODELS = {}) =>
             \/ refresh'.by = "check_url"
             \/ \E p \in Procs : pc[p] = "idle" /\ pc'[p] = "check_url_gather"
       /\ \A p \in Procs :
             (pc[p] # "call_next" /\ pc'[p] = "call_next") =>
                 \/ pc[p] = "idle" /\ DOMAIN MODELS # {}
                 \/ /\ refresh'.by = "check_url"
                    /\ refresh'.how \in {"guard", "merged"}
                    /\ MODELS' = DictOf(refresh'.models)]_vars

\* the refresh of the middleware has merged a catalog and the handler of
\* the request is about to run
C18_Witness ==
    /\ refresh.by = "check_url"
    /\ refresh.how = "merged"
    /\ refresh.models # <<>>
    /\ MODELS = DictOf(refresh.models)
    /\ \E p \in Procs : pc[p] = "call_next"

\* C19: POST /keys/update replaces the whole key list with the submitted
\* list and answers with it; the handler calls no get_all_models and leaves
\* the URL list and the catalog as they were.
C19_KeysUpdate ==
    [][result'.kind = "update_openai_key" =>
        /\ OPENAI_API_KEYS' = result'.form
        /\ result'.status = 200
        /\ refresh' = NoRefresh
        /\ OPENAI_API_BASE_URLS' = OPENAI_API_BASE_URLS
        /\ MODELS' = MODELS
        /\ \A p \in Procs : pc'[p] \notin {"gather", "check_url_gather"}
                                \/ pc'[p] = pc[p]]_vars

\* a key list of two was replaced by the single empty key while the catalog
\* was populated, and the catalog stayed
C19_Witness ==
    /\ result.kind = "update_openai_key"
    /\ result.form = <<"">>
    /\ OPENAI_API_KEYS = <<"">>
    /\ Len(OPENAI_API_BASE_URLS) = 2
    /\ DOMAIN MODELS # {}

\* C20 as stated: in every reachable state the urlIdx of every catalog entry
\* is a valid index into the current base-URL list and the current key
\* list, and the proxy never indexes out of range for a catalogued model.
C20_ValidIndex ==
    /\ \A id \in DOMAIN MODELS :
          /\ MODELS[id].urlIdx >= 0
          /\ MODELS[id].urlIdx < Len(OPENAI_API_BASE_URLS)
          /\ MODELS[id].urlIdx < Len(OPENAI_API_KEYS)
    /\ ProxyNamesCatalogued => result.exc # "IndexError"

\* C21 as stated: when a refresh merges, the base-URL list the merge reads
\* is the list its fetches were issued against, so every merged entry
\* tagged urlIdx = i was filtered against the URL it was fetched from: an
\* entry fetched from a URL containing "api.openai.com" has "gpt" in its id,
\* and every entry fetched from another URL is kept.
C21_SameListInMerge ==
    [][refresh'.how = "merged" =>
        /\ refresh'.tasks = OPENAI_API_BASE_URLS
        /\ \A k \in DOMAIN refresh'.models :
              HasApiOpenAiCom(refresh'.tasks[refresh'.models[k].urlIdx + 1])
                  => HasGpt(refresh'.models[k].id)
        /\ \A i \in DOMAIN refresh'.lists :
              (refresh'.lists[i].present /\ ~HasApiOpenAiCom(refresh'.tasks[i]))
              => \A id \in Ids(refresh'.lists[i].list) :
                    \E k \in DOMAIN refresh'.models :
                        refresh'.models[k] = Entry(id, i - 1)]_vars

\* the last step answered GET /models with a list cut down to the allow-list
FilteredListing ==
    /\ result.kind = "get_models"
    /\ result.status = 200
    /\ result.role = "user"
    /\ ENABLE_MODEL_FILTER
    /\ refresh.by = "get_models"
    /\ refresh.how = "merged"

\* C22: applying the allow-list to one caller's GET /models answer does not
\* change the catalog: after a filtered listing the catalog is the mapping
\* of the whole merged list and holds every merged id, the ids outside the
\* allow-list included.
C22_FilterLeavesCatalog ==
    FilteredListing =>
        /\ MODELS = DictOf(refresh.models)
        /\ \A k \in DOMAIN refresh.models :
              /\ refresh.models[k].id \in DOMAIN MODELS
              /\ \E j \in DOMAIN refresh.models :
                    MODELS[refresh.models[k].id] = refresh.models[j]

\* a listing dropped llama-3 from its answer and the catalog kept it
C22_Witness ==
    /\ FilteredListing
    /\ \A k \in DOMAIN result.data : result.data[k].id \in MODEL_FILTER_LIST
    /\ result.data # <<>>
    /\ \E k \in DOMAIN refresh.models : refresh.models[k].id = "llama-3"
    /\ "llama-3" \in DOMAIN MODELS

\* the shared copies of a chat
SharedCopies(rows, chat_id) == {row \in rows : row.user_id = SharedUser(chat_id)}

\* C23 as stated: delete_chat_by_id_and_user_id(id, user_id) with a user_id
\* that does not own chat id leaves the table as it was: neither the chat
\* nor its shared copy is removed.
C23_DeleteByNonOwner ==
    [][(/\ returned'.op = "delete_chat_by_id_and_user_id"
        /\ \E row \in chats : row.id = returned'.id
                                 /\ row.user_id # returned'.user_id)
       => chats' = chats]_vars

\* C24 as stated: insert_shared_chat_by_chat_id on a chat that has a
\* share_id, its shared copy being in the table, creates no row and returns
\* that copy (the chat whose id is the share_id), and the chat has at most
\* one shared copy afterwards.
C24_ShareIdempotent ==
    [][\A chat \in chats :
        (/\ returned'.op = "insert_shared_chat_by_chat_id"
         /\ returned'.id = chat.id
         /\ chat.share_id # NULL
         /\ RowsById(chat.share_id) # {})
        => /\ chats' = chats
           /\ returned'.chat \in RowsById(chat.share_id)
           /\ Cardinality(SharedCopies(chats', chat.id)) <= 1]_vars

====
